---- MODULE Spec2Model ----
(***************************************************************************)
(* State-machine model of canva_automation.py: main, and the methods of    *)
(* CanvaAutomation (setup_driver, read_phone_numbers, create_sample_file,  *)
(* process_number, run_automation).                                        *)
(*                                                                         *)
(* Strings are sequences of one-character strings.  Every call into the    *)
(* browser, the file system or time.sleep is a point where the environment *)
(* picks an outcome: "ok", "exc" (an exception derived from Exception:     *)
(* TimeoutException, NoSuchElementException, WebDriverException, OSError)  *)
(* or "kbd" (KeyboardInterrupt, which derives from BaseException only).    *)
(***************************************************************************)
EXTENDS Integers, Sequences, FiniteSets, TLC

\* ---------------------------------------------------------------- bounds
\* Longest input file, in raw entries, that Init enumerates.
MaxLines == 2

\* ------------------------------------------------------ program constants
MinDigits == 10
DelayMin == 2
DelayMax == 5
WaitTimeout == 15

\* ------------------------------------------------------------- characters
Digit == {"0", "1", "2", "3", "4", "5", "6", "7", "8", "9"}
Whitespace == {" ", "\t", "\n"}

\* str.isdigit on one character
isdigit(c) == c \in Digit

\* ------------------------------------------------------- raw input entries
\* Entries an input file is built from.  None contains a newline.
Raw10 == <<"9", "8", "7", "6", "5", "4", "3", "2", "1", "0">>
RawIntl == <<" ", "+", "9", "1", "-", "9", "8", "7", "6", "5", " ", "4", "3", "2", "1", "0", "\t">>
RawShort == <<"1", "2", "3", "4", "5">>
RawNine == <<"9", "8", "7", "-", "6", "5", "4", "-", "3", "2", "1">>
RawBlank == <<" ", " ">>
RawPool == {Raw10, RawIntl, RawShort, RawNine, RawBlank}

BoundedSeq(S, n) == UNION {[1..k -> S] : k \in 0..n}

\* ------------------------------------------------------------ text files
\* "\n".join(lines): the text of a file holding the given entries.
RECURSIVE JoinLines(_)
JoinLines(lines) ==
    IF lines = <<>> THEN <<>>
    ELSE IF Len(lines) = 1 THEN lines[1]
    ELSE lines[1] \o <<"\n">> \o JoinLines(Tail(lines))

\* Iterating a text file: each line runs up to and including its newline.
RECURSIVE FileLines(_, _, _)
FileLines(text, cur, acc) ==
    IF text = <<>>
    THEN IF cur = <<>> THEN acc ELSE Append(acc, cur)
    ELSE IF Head(text) = "\n"
         THEN FileLines(Tail(text), <<>>, Append(acc, Append(cur, "\n")))
         ELSE FileLines(Tail(text), Append(cur, Head(text)), acc)

RECURSIVE lstrip(_)
lstrip(s) ==
    IF s # <<>> /\ Head(s) \in Whitespace THEN lstrip(Tail(s)) ELSE s

RECURSIVE rstrip(_)
rstrip(s) ==
    IF s # <<>> /\ s[Len(s)] \in Whitespace
    THEN rstrip(SubSeq(s, 1, Len(s) - 1))
    ELSE s

\* str.strip
strip(s) == rstrip(lstrip(s))

\* [line.strip() for line in f if line.strip()]
RECURSIVE StrippedLines(_)
StrippedLines(lines) ==
    IF lines = <<>> THEN <<>>
    ELSE IF strip(Head(lines)) # <<>>
         THEN <<strip(Head(lines))>> \o StrippedLines(Tail(lines))
         ELSE StrippedLines(Tail(lines))

\* ''.join(filter(str.isdigit, str(num)))
clean(num) == SelectSeq(num, isdigit)

\* Variant: a strict comparison in the acceptance test.
ValidPhoneNumber_Strict(c) == Len(c) > MinDigits

\* The acceptance test of the cleaning loop: if len(clean) >= 10.
ValidPhoneNumber(c) == Len(c) >= MinDigits

\* The cleaning loop: for num in numbers: ... cleaned_numbers.append(clean)
RECURSIVE cleaned_numbers(_, _)
cleaned_numbers(nums, acc) ==
    IF nums = <<>> THEN acc
    ELSE cleaned_numbers(Tail(nums),
                         IF ValidPhoneNumber(clean(Head(nums)))
                         THEN Append(acc, clean(Head(nums)))
                         ELSE acc)

\* The five entries create_sample_file writes: 9876543210 .. 9876543214.
SamplePrefix == <<"9", "8", "7", "6", "5", "4", "3", "2", "1">>

sample_numbers ==
    << Append(SamplePrefix, "0"), Append(SamplePrefix, "1"),
       Append(SamplePrefix, "2"), Append(SamplePrefix, "3"),
       Append(SamplePrefix, "4") >>

\* ------------------------------------------------------------------ state
VARIABLES
    pc,           \* position of the program
    headless,     \* self.headless
    driver,       \* self.driver: "None" or "Chrome"
    wait,         \* self.wait: timeout of the WebDriverWait, 0 while None
    fileExists,   \* whether numbers.txt exists
    fileText,     \* the characters of numbers.txt
    numbers,      \* run_automation's list of identifiers
    i,            \* loop counter of run_automation, 0 before the loop
    success,      \* the value process_number returned last
    delay,        \* the inter-identifier delay drawn last, 0 before any
    exc,          \* the exception leaving the program, "none" if none
    log,          \* kinds of lifecycle lines logged so far
    viaMain,      \* history: the program was started through main
    absentAtStart,\* history: numbers.txt did not exist at the start
    rawLines,     \* history: the entries numbers.txt was written from
    setupCalls,   \* history: calls of setup_driver
    readCalls,    \* history: calls of read_phone_numbers
    quitCalls,    \* history: calls of driver.quit
    procLog,      \* history: arguments of the calls of process_number
    results,      \* history: outcomes reported by the loop, in order
    steps,        \* history: steps run by the current process_number call
    failed,       \* history: steps that raised in the current call
    delayCount,   \* history: delays started so far
    interrupted,  \* history: a KeyboardInterrupt was raised
    intrInLoop    \* history: ... while the identifier loop was running

vars == <<pc, headless, driver, wait, fileExists, fileText, numbers, i, success,
          delay, exc, log, viaMain, absentAtStart, rawLines, setupCalls,
          readCalls, quitCalls, procLog, results, steps, failed, delayCount,
          interrupted, intrInLoop>>

fileVars == <<fileExists, fileText, rawLines>>
driverVars == <<driver, wait>>
loopVars == <<numbers, i, delay, delayCount, procLog, results>>
callVars == <<steps, failed>>
entryVars == <<viaMain, absentAtStart>>

\* Outcomes of a call into the browser or the file system, and of time.sleep.
Outcomes == {"ok", "exc", "kbd"}
SleepOutcomes == {"ok", "kbd"}

\* What the menu prompt of main can read.
Choices == {"1", "2", "3"}

\* ------------------------------------------------------ exception clauses
\* Variant: the inner handlers written as `except Exception:`.
BareExcept_ExceptionOnly(e) == e = "exc"

\* `except:` catches every BaseException.
BareExcept(e) == e \in {"exc", "kbd"}
\* `except Exception` does not catch KeyboardInterrupt.
ExceptException(e) == e = "exc"
\* `except KeyboardInterrupt`
ExceptKeyboardInterrupt(e) == e = "kbd"

\* The program starts in main, or run_automation is called on a freshly
\* constructed CanvaAutomation() by code importing the module.  numbers.txt
\* is absent, or holds up to MaxLines raw entries, with or without a final
\* newline.
Init ==
    /\ pc \in {"main", "run_automation"}
    /\ headless = FALSE
    /\ driver = "None"
    /\ wait = 0
    /\ fileExists \in BOOLEAN
    /\ rawLines \in (IF fileExists THEN BoundedSeq(RawPool, MaxLines) ELSE {<<>>})
    /\ fileText \in (IF fileExists /\ rawLines # <<>>
                     THEN {JoinLines(rawLines), JoinLines(rawLines) \o <<"\n">>}
                     ELSE {<<>>})
    /\ numbers = <<>>
    /\ i = 0
    /\ success = FALSE
    /\ delay = 0
    /\ exc = "none"
    /\ log = {}
    /\ viaMain = (pc = "main")
    /\ absentAtStart = ~fileExists
    /\ setupCalls = 0
    /\ readCalls = 0
    /\ quitCalls = 0
    /\ procLog = <<>>
    /\ results = <<>>
    /\ steps = <<>>
    /\ failed = {}
    /\ delayCount = 0
    /\ interrupted = FALSE
    /\ intrInLoop = FALSE

\* ------------------------------------------------------ create_sample_file
\* Variant: the last sample entry is left out.
create_sample_file_Four ==
    /\ fileExists' = TRUE
    /\ fileText' = JoinLines(SubSeq(sample_numbers, 1, 4))
    /\ rawLines' = SubSeq(sample_numbers, 1, 4)

\* open('numbers.txt', 'w') and write: the file now holds the five entries.
create_sample_file ==
    /\ fileExists' = TRUE
    /\ fileText' = JoinLines(sample_numbers)
    /\ rawLines' = sample_numbers

\* -------------------------------------------------------------------- main
main ==
    /\ pc = "main"
    /\ \E w \in (IF fileExists THEN {"ok"} ELSE {"ok", "exc"}), choice \in Choices :
        /\ IF ~fileExists /\ w = "ok"
           THEN create_sample_file /\ log' = log \cup {"sample_created"}
           ELSE UNCHANGED <<fileVars, log>>
        /\ IF w = "exc"
           THEN pc' = "done" /\ exc' = "exc" /\ UNCHANGED headless
           ELSE IF choice \in {"1", "2"}
                THEN pc' = "run_automation" /\ headless' = (choice = "2")
                     /\ UNCHANGED exc
                ELSE pc' = "done" /\ UNCHANGED <<headless, exc>>
    /\ UNCHANGED <<driverVars, loopVars, callVars, entryVars, success,
                   setupCalls, readCalls, quitCalls, interrupted, intrInLoop>>

\* ------------------------------------------------------------ setup_driver
\* Variant: the result of setup_driver is ignored.
SetupFailed_Ignored == pc' = "read"

\* `if not self.setup_driver(): return`, taken when it returned False.
SetupFailed == pc' = "done"

\* run_automation, up to `if not self.setup_driver(): return`.
setup_driver ==
    /\ pc = "run_automation"
    /\ setupCalls' = setupCalls + 1
    /\ \E o \in Outcomes :
        /\ interrupted' = (interrupted \/ o = "kbd")
        /\ IF o = "ok"
           THEN /\ driver' = "Chrome"
                /\ wait' = WaitTimeout
                /\ log' = log \cup {"driver_initialized"}
                /\ pc' = "read"
                /\ UNCHANGED exc
           ELSE IF ExceptException(o)
           THEN /\ log' = log \cup {"driver_failed"}
                /\ SetupFailed
                /\ UNCHANGED <<driverVars, exc>>
           ELSE /\ pc' = "done"
                /\ exc' = o
                /\ UNCHANGED <<driverVars, log>>
    /\ UNCHANGED <<headless, fileVars, loopVars, callVars, entryVars, success,
                   readCalls, quitCalls, intrInLoop>>

\* -------------------------------------------- handlers of run_automation
\* Variant: the browser is closed at the end of the try body, not in a
\* finally clause, so a handled exception ends the run without it.
RunHandler_NoFinally(e) ==
    /\ pc' = "done"
    /\ IF e = "kbd"
       THEN log' = log \cup {"stopped_by_user"} /\ UNCHANGED exc
       ELSE log' = log \cup {"unexpected_error"} /\ UNCHANGED exc

\* An exception e reaches the try statement of run_automation.
RunHandler(e) ==
    /\ pc' = "finally"
    /\ IF ExceptKeyboardInterrupt(e)
       THEN log' = log \cup {"stopped_by_user"} /\ UNCHANGED exc
       ELSE IF ExceptException(e)
       THEN log' = log \cup {"unexpected_error"} /\ UNCHANGED exc
       ELSE exc' = e /\ UNCHANGED log

\* ------------------------------------------------------ read_phone_numbers
\* The text branch of read_phone_numbers.  With the file absent, open raises
\* FileNotFoundError and o is the outcome of create_sample_file, called in
\* the handler: what it raises leaves read_phone_numbers.  With the file
\* present, o is the outcome of reading it.
read_phone_numbers ==
    /\ pc = "read"
    /\ readCalls' = readCalls + 1
    /\ \E o \in Outcomes :
        /\ interrupted' = (interrupted \/ o = "kbd")
        /\ IF ~fileExists
           THEN IF o = "ok"
                THEN /\ create_sample_file
                     /\ log' = log \cup {"file_not_found", "sample_created"}
                     /\ numbers' = <<>>
                     /\ pc' = "loaded"
                     /\ UNCHANGED exc
                ELSE /\ RunHandler(o)
                     /\ UNCHANGED <<numbers, fileVars>>
           ELSE IF o = "ok"
           THEN /\ numbers' = cleaned_numbers(
                                 StrippedLines(FileLines(fileText, <<>>, <<>>)), <<>>)
                /\ log' = log \cup {"loaded"}
                /\ pc' = "loaded"
                /\ UNCHANGED <<fileVars, exc>>
           ELSE IF ExceptException(o)
           THEN /\ numbers' = <<>>
                /\ log' = log \cup {"read_error"}
                /\ pc' = "loaded"
                /\ UNCHANGED <<fileVars, exc>>
           ELSE /\ RunHandler(o)
                /\ UNCHANGED <<numbers, fileVars>>
    /\ UNCHANGED <<headless, driverVars, i, delay, delayCount, procLog, results,
                   callVars, entryVars, success, setupCalls, quitCalls, intrInLoop>>

\* ---------------------------------------------------------- run_automation
\* `if not numbers: ... return`: the return runs the finally clause.
NoNumbers ==
    /\ pc = "loaded"
    /\ numbers = <<>>
    /\ log' = log \cup {"no_numbers"}
    /\ pc' = "finally"
    /\ UNCHANGED <<headless, driverVars, fileVars, loopVars, callVars, entryVars,
                   success, exc, setupCalls, readCalls, quitCalls, interrupted,
                   intrInLoop>>

StartLoop ==
    /\ pc = "loaded"
    /\ numbers # <<>>
    /\ log' = log \cup {"starting"}
    /\ pc' = "loop"
    /\ UNCHANGED <<headless, driverVars, fileVars, loopVars, callVars, entryVars,
                   success, exc, setupCalls, readCalls, quitCalls, interrupted,
                   intrInLoop>>

\* `for i, number in enumerate(numbers, 1)`: the next identifier, and the
\* call of process_number on it.
NextNumber ==
    /\ pc = "loop"
    /\ i < Len(numbers)
    /\ i' = i + 1
    /\ procLog' = Append(procLog, numbers[i + 1])
    /\ steps' = <<>>
    /\ failed' = {}
    /\ pc' = "navigate"
    /\ UNCHANGED <<headless, driverVars, fileVars, numbers, delay, delayCount,
                   results, entryVars, success, exc, log, setupCalls, readCalls,
                   quitCalls, interrupted, intrInLoop>>

\* The loop is exhausted: "Automation completed!".
LoopDone ==
    /\ pc = "loop"
    /\ i >= Len(numbers)
    /\ log' = log \cup {"completed"}
    /\ pc' = "finally"
    /\ UNCHANGED <<headless, driverVars, fileVars, loopVars, callVars, entryVars,
                   success, exc, setupCalls, readCalls, quitCalls, interrupted,
                   intrInLoop>>

\* ---------------------------------------------------------- process_number
\* process_number returns result to the loop.
Returns(result) ==
    /\ pc' = "report"
    /\ success' = result
    /\ UNCHANGED <<log, exc>>

\* Variant: process_number has no outer handler.
Raises_Uncaught(e) == RunHandler(e) /\ UNCHANGED success

\* An exception e is raised inside the outer try of process_number.
Raises(e) ==
    IF ExceptException(e)
    THEN Returns(FALSE)
    ELSE RunHandler(e) /\ UNCHANGED success

\* What no step of process_number changes.
ProcessFrame ==
    UNCHANGED <<headless, driverVars, fileVars, loopVars, entryVars, setupCalls,
                readCalls, quitCalls>>

Interrupt(o) ==
    /\ interrupted' = (interrupted \/ o = "kbd")
    /\ intrInLoop' = (intrInLoop \/ o = "kbd")

\* Step 1: driver.get and time.sleep(3), in the outer try only.
Navigate ==
    /\ pc = "navigate"
    /\ steps' = Append(steps, "navigate")
    /\ \E o \in Outcomes :
        /\ Interrupt(o)
        /\ IF o = "ok"
           THEN pc' = "phone_button" /\ UNCHANGED <<failed, success, log, exc>>
           ELSE failed' = failed \cup {"navigate"} /\ Raises(o)
    /\ ProcessFrame

\* Step 2, primary selector: wait.until, click, time.sleep(2), under `except:`.
PhoneButton ==
    /\ pc = "phone_button"
    /\ steps' = Append(steps, "phone_button")
    /\ \E o \in Outcomes :
        /\ Interrupt(o)
        /\ IF o = "ok"
           THEN pc' = "enter_phone" /\ UNCHANGED <<success, log, exc>>
           ELSE IF BareExcept(o)
           THEN pc' = "phone_button_alt" /\ UNCHANGED <<success, log, exc>>
           ELSE Raises(o)
    /\ UNCHANGED failed
    /\ ProcessFrame

\* Step 2, fallback selector, inside the handler and under its own `except:`.
PhoneButtonAlt ==
    /\ pc = "phone_button_alt"
    /\ \E o \in Outcomes :
        /\ Interrupt(o)
        /\ IF o = "ok"
           THEN pc' = "enter_phone" /\ UNCHANGED <<failed, success, log, exc>>
           ELSE IF BareExcept(o)
           THEN /\ failed' = failed \cup {"phone_button"}
                /\ pc' = "enter_phone"
                /\ UNCHANGED <<success, log, exc>>
           ELSE failed' = failed \cup {"phone_button"} /\ Raises(o)
    /\ UNCHANGED steps
    /\ ProcessFrame

\* Variant: the handler of step 3 re-raises.
PhoneInputMissing_Raise == RunHandler("exc") /\ UNCHANGED success

\* Variant: the handler of step 3 only warns, like the other handlers.
PhoneInputMissing_FallThrough ==
    pc' = "continue" /\ UNCHANGED <<success, log, exc>>

\* The handler of step 3: "Could not find phone input field"; return False.
PhoneInputMissing == Returns(FALSE)

\* Step 3: wait.until, clear, send_keys, time.sleep(1), under `except:`.
EnterPhone ==
    /\ pc = "enter_phone"
    /\ steps' = Append(steps, "enter_phone")
    /\ \E o \in Outcomes :
        /\ Interrupt(o)
        /\ IF o = "ok"
           THEN pc' = "continue" /\ UNCHANGED <<failed, success, log, exc>>
           ELSE IF BareExcept(o)
           THEN failed' = failed \cup {"enter_phone"} /\ PhoneInputMissing
           ELSE failed' = failed \cup {"enter_phone"} /\ Raises(o)
    /\ ProcessFrame

\* Step 4: find_element, click, time.sleep(3), under `except:`.
Continue ==
    /\ pc = "continue"
    /\ steps' = Append(steps, "continue")
    /\ \E o \in Outcomes :
        /\ Interrupt(o)
        /\ IF o = "ok"
           THEN pc' = "enter_name" /\ UNCHANGED <<failed, success, log, exc>>
           ELSE IF BareExcept(o)
           THEN /\ failed' = failed \cup {"continue"}
                /\ pc' = "enter_name"
                /\ UNCHANGED <<success, log, exc>>
           ELSE failed' = failed \cup {"continue"} /\ Raises(o)
    /\ ProcessFrame

\* Step 5: generate_random_name, then wait.until, clear, send_keys,
\* time.sleep(1) under `except:`.
EnterName ==
    /\ pc = "enter_name"
    /\ steps' = Append(steps, "enter_name")
    /\ \E o \in Outcomes :
        /\ Interrupt(o)
        /\ IF o = "ok"
           THEN pc' = "submit" /\ UNCHANGED <<failed, success, log, exc>>
           ELSE IF BareExcept(o)
           THEN /\ failed' = failed \cup {"enter_name"}
                /\ pc' = "submit"
                /\ UNCHANGED <<success, log, exc>>
           ELSE failed' = failed \cup {"enter_name"} /\ Raises(o)
    /\ ProcessFrame

\* Step 6: find_element, click, under `except:`.
Submit ==
    /\ pc = "submit"
    /\ steps' = Append(steps, "submit")
    /\ \E o \in Outcomes :
        /\ Interrupt(o)
        /\ IF o = "ok"
           THEN pc' = "settle" /\ UNCHANGED <<failed, success, log, exc>>
           ELSE IF BareExcept(o)
           THEN /\ failed' = failed \cup {"submit"}
                /\ pc' = "settle"
                /\ UNCHANGED <<success, log, exc>>
           ELSE failed' = failed \cup {"submit"} /\ Raises(o)
    /\ ProcessFrame

\* Step 7: time.sleep(2) in the outer try only, then return True.
Settle ==
    /\ pc = "settle"
    /\ steps' = Append(steps, "settle")
    /\ \E o \in SleepOutcomes :
        /\ Interrupt(o)
        /\ IF o = "ok" THEN Returns(TRUE) ELSE Raises(o)
    /\ UNCHANGED failed
    /\ ProcessFrame

\* ------------------------------------------------- run_automation, the loop
\* Variant: a delay after the last identifier too.
DelayAfter_Always(k, n) == k <= n

\* Whether the loop delays after the identifier numbered k of n.
DelayAfter(k, n) == k < n

\* The outcome of process_number is logged; the loop goes on.
ReportOutcome ==
    /\ pc = "report"
    /\ results' = Append(results, success)
    /\ pc' = IF DelayAfter(i, Len(numbers)) THEN "delay" ELSE "loop"
    /\ UNCHANGED <<headless, driverVars, fileVars, numbers, i, delay, delayCount,
                   procLog, callVars, entryVars, success, exc, log, setupCalls,
                   readCalls, quitCalls, interrupted, intrInLoop>>

\* random.uniform(2, 5)
uniform == DelayMin..DelayMax

\* delay = random.uniform(2, 5); time.sleep(delay)
RandomDelay ==
    /\ pc = "delay"
    /\ delay' \in uniform
    /\ delayCount' = delayCount + 1
    /\ \E o \in SleepOutcomes :
        /\ Interrupt(o)
        /\ IF o = "ok"
           THEN pc' = "loop" /\ UNCHANGED <<log, exc>>
           ELSE RunHandler(o)
    /\ UNCHANGED <<headless, driverVars, fileVars, numbers, i, procLog, results,
                   callVars, entryVars, success, setupCalls, readCalls, quitCalls>>

\* finally: if self.driver: self.driver.quit(); "Browser closed".
Finally ==
    /\ pc = "finally"
    /\ IF driver # "None"
       THEN /\ quitCalls' = quitCalls + 1
            /\ \E o \in Outcomes :
                /\ interrupted' = (interrupted \/ o = "kbd")
                /\ IF o = "ok"
                   THEN log' = log \cup {"browser_closed"} /\ UNCHANGED exc
                   ELSE exc' = o /\ UNCHANGED log
       ELSE UNCHANGED <<quitCalls, log, exc, interrupted>>
    /\ pc' = "done"
    /\ UNCHANGED <<headless, driverVars, fileVars, loopVars, callVars, entryVars,
                   success, setupCalls, readCalls, intrInLoop>>

Next ==
    \/ main
    \/ setup_driver
    \/ read_phone_numbers
    \/ NoNumbers
    \/ StartLoop
    \/ NextNumber
    \/ LoopDone
    \/ Navigate
    \/ PhoneButton
    \/ PhoneButtonAlt
    \/ EnterPhone
    \/ Continue
    \/ EnterName
    \/ Submit
    \/ Settle
    \/ ReportOutcome
    \/ RandomDelay
    \/ Finally

Spec == Init /\ [][Next]_vars

TypeOK ==
    /\ pc \in {"main", "run_automation", "read", "loaded", "loop", "navigate",
               "phone_button", "phone_button_alt", "enter_phone", "continue",
               "enter_name", "submit", "settle", "report", "delay", "finally",
               "done"}
    /\ driver \in {"None", "Chrome"}
    /\ wait \in {0, WaitTimeout}
    /\ i \in 0..Len(numbers)
    /\ exc \in {"none", "exc", "kbd"}

\* ----------------------------------------------------------------- claims
Range(q) == {q[k] : k \in DOMAIN q}

IsPrefix(q, t) == Len(q) <= Len(t) /\ q = SubSeq(t, 1, Len(q))

\* The steps of process_number, in the order of the source.
StepOrder == <<"navigate", "phone_button", "enter_phone", "continue",
               "enter_name", "submit", "settle">>

OptionalSteps == {"phone_button", "continue", "enter_name", "submit"}

StepAfter(st) == StepOrder[(CHOOSE k \in DOMAIN StepOrder : StepOrder[k] = st) + 1]

\* Setup succeeded in this run.
SetupSucceeded == driver = "Chrome"

\* C1: in a run over N valid identifiers that is not interrupted, setup is
\* performed exactly once and process_number is called exactly N times, once
\* per identifier and in input order, whatever each call's outcome.  At every
\* moment the calls made so far are the first i identifiers, in order.
C1_SetupOnceAndOneAttemptEach ==
    /\ setupCalls <= 1
    /\ procLog = SubSeq(numbers, 1, i)
    /\ (pc = "done" /\ numbers # <<>> /\ ~interrupted)
         => /\ setupCalls = 1
            /\ procLog = numbers
            /\ Len(results) = Len(numbers)

\* An uninterrupted run over two or more identifiers has ended, with both a
\* failed and a succeeded identifier among them.
C1_Witness ==
    /\ pc = "done"
    /\ ~interrupted
    /\ Len(numbers) >= 2
    /\ procLog = numbers
    /\ Range(results) = {TRUE, FALSE}

\* C2: in every run in which setup succeeded, however the run ends,
\* driver.quit is invoked exactly once before the run ends (and never
\* before the cleanup step).
C2_QuitExactlyOnce ==
    /\ quitCalls <= 1
    /\ (pc # "done" => quitCalls = 0)
    /\ (pc = "done" /\ SetupSucceeded) => quitCalls = 1

\* A run interrupted inside the identifier loop has ended, the browser
\* released once.
C2_Witness ==
    /\ pc = "done"
    /\ "stopped_by_user" \in log
    /\ intrInLoop
    /\ procLog # <<>>
    /\ quitCalls = 1

\* C3 as stated: only the ENTER_PHONE step failing leads to FAILED.
C3_OnlyEnterPhoneFails ==
    (pc = "report" /\ ~success) => "enter_phone" \in failed

\* C3, amended: process_number returns failure exactly when the NAVIGATE or
\* the ENTER_PHONE step raised; a failure of LOCATE_PHONE_BUTTON, CONTINUE,
\* ENTER_NAME or SUBMIT is swallowed and the procedure goes on to the step
\* after it.
C3_HardStepsNavigateAndEnterPhone ==
    /\ pc = "report" =>
         (success <=> failed \cap {"navigate", "enter_phone"} = {})
    /\ \A st \in failed \cap OptionalSteps :
         pc = StepAfter(st) \/ StepAfter(st) \in Range(steps)

\* process_number returned success although all four optional steps failed.
C3_Witness ==
    /\ pc = "report"
    /\ success
    /\ failed = OptionalSteps

\* C4: if the phone-input locator does not match, process_number returns
\* failure and no exception leaves it: the loop records the failure and goes
\* on to the delay and the next identifier, and the run ends after it only
\* when it was the last identifier or the delay that follows is interrupted.
C4_PhoneInputFailureIsContained ==
    "enter_phone" \in failed =>
        /\ "unexpected_error" \notin log
        /\ pc # "done" => exc = "none"
        /\ \/ pc = "report" /\ ~success /\ Len(results) = i - 1
           \/ /\ Len(results) = i
              /\ ~results[i]
              /\ \/ pc = "delay" /\ i < Len(numbers)
                 \/ pc = "loop"
                 \/ /\ pc \in {"finally", "done"}
                    /\ \/ i = Len(numbers) /\ "completed" \in log
                       \/ delayCount = i /\ "stopped_by_user" \in log

\* The phone input was missing for an identifier that is not the last; the
\* failure is recorded and the loop is about to take the next identifier.
C4_Witness ==
    /\ "enter_phone" \in failed
    /\ pc = "loop"
    /\ i < Len(numbers)
    /\ ~results[i]

\* C5: an interruption arriving while the identifier loop is running ends
\* the loop: control is in the cleanup step or the run has ended.
C5_InterruptEndsLoop ==
    intrInLoop => pc \in {"finally", "done"}

\* C6 as stated: started through main with numbers.txt absent, the run
\* processes no identifier.
C6_MainWithoutFileProcessesNothing ==
    (viaMain /\ absentAtStart) => procLog = <<>>

\* C6, amended: when run_automation itself finds numbers.txt absent (it was
\* not started through main), it processes no identifier, and where
\* read_phone_numbers returns the sample file holds the five placeholder
\* numbers and the run reports nothing to process.  Started through main,
\* main has written the sample file before the run, and a run that reads
\* the file loads the five placeholder numbers as its identifiers.
C6_SampleFileAndNothingProcessed ==
    /\ (absentAtStart /\ ~viaMain) =>
         /\ procLog = <<>>
         /\ numbers = <<>>
         /\ pc = "loaded" =>
              /\ fileExists
              /\ StrippedLines(FileLines(fileText, <<>>, <<>>)) = sample_numbers
              /\ Len(sample_numbers) = 5
         /\ (pc = "done" /\ "file_not_found" \in log) => "no_numbers" \in log
    /\ (absentAtStart /\ viaMain /\ "loaded" \in log) =>
         /\ numbers = sample_numbers
         /\ StrippedLines(FileLines(fileText, <<>>, <<>>)) = sample_numbers

\* run_automation, started without main and without numbers.txt, has ended:
\* the sample file exists and nothing was processed.
C6_Witness ==
    /\ pc = "done"
    /\ absentAtStart
    /\ ~viaMain
    /\ fileExists
    /\ "no_numbers" \in log
    /\ procLog = <<>>

\* Positions of the digits of a string.
DigitPositions(str) == {k \in DOMAIN str : str[k] \in Digit}

\* The raw entries with at least MinDigits digits.
KeptEntries ==
    {j \in DOMAIN rawLines : Cardinality(DigitPositions(rawLines[j])) >= MinDigits}

\* The rank of x in the set S of numbers.
RankIn(S, x) == Cardinality({y \in S : y <= x})

SetupReturnedFalse == setupCalls > 0 /\ driver = "None" /\ exc # "kbd"

\* C8: if setup_driver fails, run_automation ends at once: setup is not
\* retried, the input file is not read, no identifier is processed, and the
\* failure is reported.
C8_SetupFailureAborts ==
    SetupReturnedFalse =>
        /\ pc = "done"
        /\ setupCalls = 1
        /\ readCalls = 0
        /\ numbers = <<>>
        /\ procLog = <<>>
        /\ quitCalls = 0
        /\ "driver_failed" \in log

\* Setup failed in a run whose input file holds a valid number.
C8_Witness ==
    /\ SetupReturnedFalse
    /\ pc = "done"
    /\ fileExists
    /\ KeptEntries # {}

InProcessNumber ==
    pc \in {"navigate", "phone_button", "phone_button_alt", "enter_phone",
            "continue", "enter_name", "submit", "settle", "report"}

\* C9: exactly one delay occurs between the procedures of consecutive
\* identifiers, after the outcome of identifier i is reported and before
\* identifier i+1 is started; each delay lies in [2, 5]; no delay follows
\* the last identifier.
C9_OneBoundedDelayBetweenIdentifiers ==
    /\ delayCount = 0 => delay = 0
    /\ delayCount > 0 => (delay >= 2 /\ delay <= 5)
    /\ InProcessNumber => delayCount = i - 1
    /\ pc = "report" => Len(results) = i - 1
    /\ pc = "delay" => (delayCount = i - 1 /\ i < Len(numbers) /\ Len(results) = i)
    /\ (pc = "loop" /\ i > 0) =>
         (Len(results) = i /\ delayCount = IF i < Len(numbers) THEN i ELSE i - 1)
    /\ (pc \in {"finally", "done"} /\ numbers # <<>>) => delayCount < Len(numbers)
    /\ "completed" \in log => delayCount = Len(numbers) - 1

\* A run over at least three identifiers has completed.
C9_Witness ==
    /\ pc = "done"
    /\ "completed" \in log
    /\ Len(numbers) >= 3
    /\ delayCount = Len(numbers) - 1

\* C10: within one call of process_number the steps run in the fixed order
\* navigate, phone-button, phone-input, continue, name, submit, settle; when
\* the phone-input step fails no later step runs for that identifier.
C10_FixedOrderAndHardGate ==
    /\ IsPrefix(steps, StepOrder)
    /\ "enter_phone" \in failed =>
         /\ steps = SubSeq(StepOrder, 1, 3)
         /\ pc \notin {"continue", "enter_name", "submit", "settle"}

\* The phone-input step failed and process_number returned.
C10_Witness ==
    /\ "enter_phone" \in failed
    /\ pc = "report"
    /\ ~success
    /\ steps = <<"navigate", "phone_button", "enter_phone">>

====
